---- MODULE Spec2Model ----
(***************************************************************************)
(* Model of the forecasting dashboard backends (app.py,                    *)
(* src/dashboard/dashboard_backend.py, api/index.py), of the encoder       *)
(* fitting of create_improved_model.py and of the category encoding of the *)
(* evaluation scripts.                                                     *)
(*                                                                         *)
(* Numbers: Python floats are modelled in fixed point, one unit = 1/100:   *)
(* sales, prices, noise and trend draws, percentages and milliseconds are  *)
(* integers counted in hundredths; a product of two                        *)
(* fixed-point numbers is divided by 100, rounding toward minus infinity.  *)
(* Dates: a calendar day is the number of days since Monday 2024-01-01;    *)
(* strftime('%Y-%m-%d') is modelled by the triple <<year, month, day>>.    *)
(***************************************************************************)
EXTENDS Integers, Sequences, FiniteSets, TLC

(***************************************************************************)
(* Bounds of the model.                                                    *)
(***************************************************************************)
MaxDays == 2
MaxPredictions == 2
MaxForecasts == 1
MaxTicks == 2
MaxHistory == 3
MaxBatch == 2

None == "None"
EmptyDict == <<>>

(***************************************************************************)
(* Arithmetic helpers (Python builtins and numpy).                         *)
(***************************************************************************)
Max(a, b) == IF a >= b THEN a ELSE b
Min(a, b) == IF a <= b THEN a ELSE b

RECURSIVE SumSeq(_)
SumSeq(s) == IF s = <<>> THEN 0 ELSE Head(s) + SumSeq(Tail(s))

RECURSIVE SqrtSearch(_, _, _)
SqrtSearch(v, lo, hi) ==
    IF lo >= hi THEN lo
    ELSE LET mid == (lo + hi + 1) \div 2
         IN IF mid * mid <= v THEN SqrtSearch(v, mid, hi)
            ELSE SqrtSearch(v, lo, mid - 1)

\* floor of the square root
ISqrt(v) == SqrtSearch(v, 0, Min(v, 46340))

\* np.std(xs): population standard deviation, sqrt(mean((x - mean)^2))
np_std(xs) ==
    LET n == Len(xs)
        s == SumSeq(xs)
        q == SumSeq([i \in 1..n |-> xs[i] * xs[i]])
    IN ISqrt(n * q - s * s) \div n

\* round(x, 1) of a number counted in hundredths: nearest tenth, ties to even
round1(x) ==
    LET lo == (x \div 10) * 10
        r == x - lo
    IN IF r < 5 THEN lo
       ELSE IF r > 5 THEN lo + 10
       ELSE IF (lo \div 10) % 2 = 0 THEN lo ELSE lo + 10

(***************************************************************************)
(* Calendar of the year 2024 (datetime, timedelta, strftime).              *)
(***************************************************************************)
MonthStart == <<0, 31, 60, 91, 121, 152, 182, 213, 244, 274, 305, 335, 366>>

\* datetime.month
month_of(d) == CHOOSE m \in 1..12 : MonthStart[m] <= d /\ d < MonthStart[m + 1]
\* datetime.day
day_of(d) == d - MonthStart[month_of(d)] + 1
\* datetime.weekday(): 0 = Monday .. 6 = Sunday
weekday(d) == d % 7
\* datetime.isocalendar()[1]
isoweek(d) == d \div 7 + 1
\* datetime.timetuple().tm_yday
tm_yday(d) == d + 1
\* strftime('%Y-%m-%d')
strftime(d) == <<2024, month_of(d), day_of(d)>>

\* The value of the k-th call of datetime.now() made by one request, as a
\* calendar day: the wall clock shows `day` until midnight passes before the
\* call number `cross` (cross = 0: midnight does not pass during the request).
now(day, cross, k) == IF cross > 0 /\ k >= cross THEN day + 1 ELSE day

(***************************************************************************)
(* Category encoding: sklearn LabelEncoder and Python hash().              *)
(***************************************************************************)
categorical_cols == <<"item_id", "dept_id", "cat_id", "store_id", "state_id">>

\* The category strings of the model in Python's string order.
LexOrder == <<"", "CA", "CA_1", "FOODS", "FOODS_3", "FOODS_3_090", "HOBBIES",
              "HOBBIES_1", "HOBBIES_1_001", "HOUSEHOLD", "NEW_ITEM", "TX",
              "TX_1">>
LexRank(s) == CHOOSE i \in 1..Len(LexOrder) : LexOrder[i] = s

RECURSIVE SortedSeq(_)
SortedSeq(S) ==
    IF S = {} THEN <<>>
    ELSE LET m == CHOOSE x \in S : \A y \in S : LexRank(x) <= LexRank(y)
         IN <<m>> \o SortedSeq(S \ {m})

\* LabelEncoder().fit(values): classes_ is the sorted list of distinct values
LabelEncoder_fit(values) == SortedSeq(values)
\* x in encoder.classes_
InClasses(classes, x) == \E i \in 1..Len(classes) : classes[i] = x
\* encoder.transform([x])[0]: the 0-based position of x in classes_
LabelEncoder_transform(classes, x) ==
    (CHOOSE i \in 1..Len(classes) : classes[i] = x) - 1

\* The categorical columns of the training table (a stand-in for the M5 data).
TrainValues ==
    [item_id |-> {"FOODS_3_090", "HOBBIES_1_001"},
     dept_id |-> {"FOODS_3", "HOBBIES_1"},
     cat_id |-> {"FOODS", "HOBBIES"},
     store_id |-> {"CA_1", "TX_1"},
     state_id |-> {"CA", "TX"}]

\* create_improved_model: encoders[col] = LabelEncoder fitted on the column
TrainedEncoders ==
    [col \in {"item_id", "dept_id", "cat_id", "store_id", "state_id"} |->
        LabelEncoder_fit(TrainValues[col])]

\* mutant: the training list names price_vs_mean before price_change
feature_columns_reordered ==
    <<"item_id_encoded", "dept_id_encoded", "cat_id_encoded", "store_id_encoded", "state_id_encoded",
      "sell_price", "day_of_week", "month", "quarter", "is_weekend", "day_of_month", "week_of_year",
      "lag_1", "lag_7", "lag_14", "lag_28", "lag_56",
      "rolling_mean_3", "rolling_mean_7", "rolling_mean_14", "rolling_mean_28",
      "rolling_std_3", "rolling_std_7", "rolling_std_14", "rolling_std_28",
      "rolling_max_7", "rolling_max_14", "rolling_min_7", "rolling_min_14",
      "sales_trend_7", "sales_trend_28", "price_vs_mean", "price_change", "is_event">>

\* create_improved_model: the feature set the regressor is fitted on
feature_columns ==
    <<"item_id_encoded", "dept_id_encoded", "cat_id_encoded", "store_id_encoded", "state_id_encoded",
      "sell_price", "day_of_week", "month", "quarter", "is_weekend", "day_of_month", "week_of_year",
      "lag_1", "lag_7", "lag_14", "lag_28", "lag_56",
      "rolling_mean_3", "rolling_mean_7", "rolling_mean_14", "rolling_mean_28",
      "rolling_std_3", "rolling_std_7", "rolling_std_14", "rolling_std_28",
      "rolling_max_7", "rolling_max_14", "rolling_min_7", "rolling_min_14",
      "sales_trend_7", "sales_trend_28", "price_change", "price_vs_mean", "is_event">>

\* save_improved_model: the content of improved_model_info.json
SavedModelInfo ==
    [model_name |-> "Improved Forecasting Model (gradient_boosting)",
     feature_columns |-> feature_columns,
     performance |-> [validation_mape |-> 541,
                      features_count |-> Len(feature_columns),
                      model_algorithm |-> "gradient_boosting"]]

\* load_model: model_info used when improved_model_info.json is not found
DefaultModelInfo ==
    [model_name |-> "Smart Forecasting Model",
     performance |-> [validation_mape |-> 541, model_algorithm |-> "gradient_boosting"],
     feature_columns |->
      <<"item_id_encoded", "dept_id_encoded", "cat_id_encoded", "store_id_encoded", "state_id_encoded",
        "sell_price", "day_of_week", "month", "quarter", "is_weekend", "day_of_month", "week_of_year",
        "lag_1", "lag_7", "lag_14", "lag_28", "lag_56",
        "rolling_mean_3", "rolling_mean_7", "rolling_mean_14", "rolling_mean_28",
        "rolling_std_3", "rolling_std_7", "rolling_std_14", "rolling_std_28",
        "rolling_max_7", "rolling_max_14", "rolling_min_7", "rolling_min_14",
        "sales_trend_7", "sales_trend_28", "price_change", "price_vs_mean", "is_event">>]

\* load_model: model_info assigned when loading raises
FallbackModelInfo ==
    [model_name |-> "Fallback Model", performance |-> [validation_mape |-> 541]]

(***************************************************************************)
(* State.                                                                  *)
(***************************************************************************)
VARIABLES
    program,      \* the script this process runs
    started,      \* TRUE once the module globals are set and startup has run
    model,        \* global model: None or the loaded regressor
    encoders,     \* global encoders: {} or the loaded dict of LabelEncoders
    model_info,   \* global model_info
    stats,        \* global stats (prediction_stats in dashboard_backend.py)
    completed,    \* history: the /predict requests answered with 200 since process start
    pyhash,       \* hash() of this process, fixed by its hash seed at startup
    artifacts,    \* the model files on disk: "ok", "missing" or "corrupt"
    today,        \* the calendar day shown by the wall clock
    resp          \* the last response sent (or the last script result)

vars == <<program, started, model, encoders, model_info, stats, completed, pyhash,
          artifacts, today, resp>>

app_py == "app.py"
dashboard_backend_py == "src/dashboard/dashboard_backend.py"
api_index_py == "api/index.py"
Servers == {app_py, dashboard_backend_py, api_index_py}

ArtifactNames == {"model", "encoders", "info"}
Regressor == "GradientBoostingRegressor"

\* 2024-03-29, a Friday
StartDay == 31 + 29 + 28

NoResponse == [op |-> "none"]

\* the module-level stats dict; last_reset = datetime.now().date()
InitialStats(prog, day) ==
    IF prog = app_py
    THEN [total_predictions |-> 0, daily_predictions |-> 0, last_reset |-> day,
          model_accuracy |-> 9460, avg_response_time |-> 0]
    ELSE IF prog = api_index_py
    THEN [total_predictions |-> 0, daily_predictions |-> 0, last_reset |-> day,
          model_accuracy |-> 9460]
    ELSE [total_predictions |-> 0, daily_predictions |-> 0, last_reset |-> day]

\* the history of a process that has answered no /predict: total, the number
\* of /predict requests answered with 200; day, the calendar day on which the
\* last of them was answered; on_day, how many were answered on that day
NothingCompleted(day) == [total |-> 0, day |-> day, on_day |-> 0]

\* the history after one more /predict is answered with 200 on the given day
completes(c, day) ==
    [total |-> c.total + 1, day |-> day,
     on_day |-> IF c.day = day THEN c.on_day + 1 ELSE 1]

InitWith(Programs, Artifacts) ==
    /\ program \in Programs
    /\ artifacts \in Artifacts
    /\ started = FALSE
    /\ model = None
    /\ encoders = EmptyDict
    /\ model_info = EmptyDict
    /\ today = StartDay
    /\ stats = InitialStats(program, today)
    /\ completed = NothingCompleted(today)
    /\ pyhash = EmptyDict
    /\ resp = NoResponse

(***************************************************************************)
(* Startup.                                                                *)
(***************************************************************************)
\* joblib.load / json.load of an artifact raises
Unloadable(name) == artifacts[name] = "corrupt"
\* get_model_path(filename) finds the file
Found(name) == artifacts[name] # "missing"

\* mutant: the except branch keeps a model that was loaded before the failure
load_model_keeping_model(h) ==
    /\ program = app_py
    /\ ~started
    /\ started' = TRUE
    /\ pyhash' = h
    /\ IF \/ (Found("model") /\ Unloadable("model"))
          \/ (Found("encoders") /\ Unloadable("encoders"))
          \/ (Found("info") /\ Unloadable("info"))
       THEN /\ model' = IF Found("model") /\ ~Unloadable("model") THEN Regressor ELSE None
            /\ encoders' = EmptyDict
            /\ model_info' = FallbackModelInfo
       ELSE /\ model' = IF Found("model") THEN Regressor ELSE None
            /\ encoders' = IF Found("encoders") THEN TrainedEncoders ELSE EmptyDict
            /\ model_info' = IF Found("info") THEN SavedModelInfo ELSE DefaultModelInfo
    /\ UNCHANGED <<program, stats, artifacts, today, resp, completed>>

\* app.py: @app.on_event("startup") load_model, in a process whose hash()
\* is h
load_model(h) ==
    /\ program = app_py
    /\ ~started
    /\ started' = TRUE
    /\ pyhash' = h
    /\ IF \/ (Found("model") /\ Unloadable("model"))
          \/ (Found("encoders") /\ Unloadable("encoders"))
          \/ (Found("info") /\ Unloadable("info"))
       THEN /\ model' = None
            /\ encoders' = EmptyDict
            /\ model_info' = FallbackModelInfo
       ELSE /\ model' = IF Found("model") THEN Regressor ELSE None
            /\ encoders' = IF Found("encoders") THEN TrainedEncoders ELSE EmptyDict
            /\ model_info' = IF Found("info") THEN SavedModelInfo ELSE DefaultModelInfo
    /\ UNCHANGED <<program, stats, artifacts, today, resp, completed>>

\* dashboard_backend.py: the module-level try/except that loads the model
dashboard_load ==
    /\ program = dashboard_backend_py
    /\ ~started
    /\ started' = TRUE
    /\ IF \E a \in ArtifactNames : artifacts[a] # "ok"
       THEN /\ model' = None
            /\ encoders' = EmptyDict
            /\ model_info' = EmptyDict
       ELSE /\ model' = Regressor
            /\ encoders' = TrainedEncoders
            /\ model_info' = SavedModelInfo
    /\ UNCHANGED <<program, stats, pyhash, artifacts, today, resp, completed>>

\* api/index.py: the module has no model to load
api_load ==
    /\ program = api_index_py
    /\ ~started
    /\ started' = TRUE
    /\ UNCHANGED <<program, model, encoders, model_info, stats, pyhash,
                   artifacts, today, resp, completed>>

\* the server process is stopped and started again: new globals, new hash seed
restart ==
    /\ program \in Servers
    /\ started
    /\ started' = FALSE
    /\ model' = None
    /\ encoders' = EmptyDict
    /\ model_info' = EmptyDict
    /\ stats' = InitialStats(program, today)
    /\ completed' = NothingCompleted(today)
    /\ pyhash' = EmptyDict
    /\ resp' = NoResponse
    /\ UNCHANGED <<program, artifacts, today>>

\* midnight passes while no request is being handled
tick ==
    /\ today < StartDay + MaxTicks
    /\ today' = today + 1
    /\ UNCHANGED <<program, started, model, encoders, model_info, stats, pyhash,
                   artifacts, resp, completed>>

(***************************************************************************)
(* Feature building.                                                       *)
(***************************************************************************)
\* hash(s) in a process whose hash values are h; hash('') is 0 for every seed
py_hash(h, s) == IF s = "" THEN 0 ELSE h[s]

\* The hash values of the process started with hash seed `seed`: a stand-in
\* for SipHash, which gives every seed its own signed values.
str_hash(seed) ==
    [s \in {LexOrder[i] : i \in 1..Len(LexOrder)} |->
        (((7919 * seed + 104729) * LexRank(s)) % 20011) - 10000]

\* np.sin(2 * np.pi * yday / 365) in hundredths (Bhaskara's approximation)
np_sin_yday(yday) ==
    LET x == (360 * yday) \div 365
        half(a) == (100 * 4 * a * (180 - a)) \div (40500 - a * (180 - a))
    IN IF x <= 180 THEN half(x) ELSE 0 - half(x - 180)

\* app.py prepare_features_for_model: base_sales
features_base_sales(data) ==
    LET b0 == 500
        b1 == IF data.cat_id = "FOODS" THEN (b0 * 120) \div 100
              ELSE IF data.cat_id = "HOUSEHOLD" THEN (b0 * 80) \div 100
              ELSE IF data.cat_id = "HOBBIES" THEN (b0 * 90) \div 100
              ELSE b0
        price == data.sell_price
    IN IF price > 500 THEN (b1 * 70) \div 100
       ELSE IF price < 200 THEN (b1 * 130) \div 100
       ELSE b1

\* app.py prepare_features_for_model.  day, cross, k0: the wall clock of the
\* request and the number of datetime.now() calls made before this one;
\* h: hash(); rnd: the np.random.normal draws.  The result lists the dict
\* items in insertion order, which is the column order of the DataFrame.
prepare_features_for_model(data, day, cross, k0, h, rnd) ==
    LET base_sales == features_base_sales(data)
        price == data.sell_price
        t(k) == now(day, cross, k0 + k)
        seasonal_factor == 100 + (10 * np_sin_yday(tm_yday(t(7)))) \div 100
        rolling_base == (base_sales * seasonal_factor) \div 100
    IN << <<"item_id_encoded", py_hash(h, data.item_id) % 1000>>,
          <<"dept_id_encoded", py_hash(h, data.dept_id) % 100>>,
          <<"cat_id_encoded", py_hash(h, data.cat_id) % 10>>,
          <<"store_id_encoded", py_hash(h, data.store_id) % 10>>,
          <<"state_id_encoded", py_hash(h, data.state_id) % 5>>,
          <<"sell_price", price>>,
          <<"day_of_week", weekday(t(1))>>,
          <<"month", month_of(t(2))>>,
          <<"quarter", (month_of(t(3)) - 1) \div 3 + 1>>,
          <<"is_weekend", IF weekday(t(4)) >= 5 THEN 1 ELSE 0>>,
          <<"day_of_month", day_of(t(5))>>,
          <<"week_of_year", isoweek(t(6))>> >>
       \o
       << <<"lag_1", Max(0, rolling_base + rnd.lag[1])>>,
          <<"lag_7", Max(0, rolling_base + rnd.lag[2])>>,
          <<"lag_14", Max(0, rolling_base + rnd.lag[3])>>,
          <<"lag_28", Max(0, rolling_base + rnd.lag[4])>>,
          <<"lag_56", Max(0, rolling_base + rnd.lag[5])>> >>
       \o
       << <<"rolling_mean_3", rolling_base>>,
          <<"rolling_mean_7", rolling_base>>,
          <<"rolling_mean_14", rolling_base>>,
          <<"rolling_mean_28", rolling_base>>,
          <<"rolling_std_3", Max(10, (rolling_base * 20) \div 100)>>,
          <<"rolling_std_7", Max(10, (rolling_base * 25) \div 100)>>,
          <<"rolling_std_14", Max(10, (rolling_base * 30) \div 100)>>,
          <<"rolling_std_28", Max(10, (rolling_base * 35) \div 100)>>,
          <<"rolling_max_7", (rolling_base * 150) \div 100>>,
          <<"rolling_max_14", (rolling_base * 170) \div 100>>,
          <<"rolling_min_7", Max(0, (rolling_base * 50) \div 100)>>,
          <<"rolling_min_14", Max(0, (rolling_base * 30) \div 100)>> >>
       \o
       << <<"sales_trend_7", rnd.trend_7>>,
          <<"sales_trend_28", rnd.trend_28>>,
          <<"price_change", rnd.price_change>>,
          <<"price_vs_mean", (price * 100) \div 300>>,
          <<"is_event", IF weekday(t(8)) = 4 THEN 1 ELSE 0>> >>

\* number of datetime.now() calls of prepare_features_for_model
FeatureClockCalls == 8

\* dashboard_backend.py prepare_features
prepare_features(data, day, cross, k0, rnd) ==
    LET t(k) == now(day, cross, k0 + k)
        base_sales == rnd.base_sales
    IN << <<"item_id_encoded", 1>>,
          <<"dept_id_encoded", 1>>,
          <<"cat_id_encoded", 1>>,
          <<"store_id_encoded", 1>>,
          <<"state_id_encoded", 1>>,
          <<"sell_price", data.sell_price>>,
          <<"day_of_week", weekday(t(1))>>,
          <<"month", month_of(t(2))>>,
          <<"quarter", (month_of(t(3)) - 1) \div 3 + 1>>,
          <<"is_weekend", IF weekday(t(4)) >= 5 THEN 1 ELSE 0>>,
          <<"day_of_month", day_of(t(5))>>,
          <<"week_of_year", isoweek(t(6))>> >>
       \o
       << <<"lag_1", Max(0, base_sales + rnd.lag[1])>>,
          <<"lag_7", Max(0, base_sales + rnd.lag[2])>>,
          <<"lag_14", Max(0, base_sales + rnd.lag[3])>>,
          <<"lag_28", Max(0, base_sales + rnd.lag[4])>>,
          <<"lag_56", Max(0, base_sales + rnd.lag[5])>> >>
       \o
       << <<"rolling_mean_3", base_sales>>,
          <<"rolling_mean_7", base_sales>>,
          <<"rolling_mean_14", base_sales>>,
          <<"rolling_mean_28", base_sales>>,
          <<"rolling_std_3", 100>>,
          <<"rolling_std_7", 120>>,
          <<"rolling_std_14", 150>>,
          <<"rolling_std_28", 200>>,
          <<"rolling_max_7", base_sales + 200>>,
          <<"rolling_max_14", base_sales + 300>>,
          <<"rolling_min_7", Max(0, base_sales - 200)>>,
          <<"rolling_min_14", Max(0, base_sales - 300)>> >>
       \o
       << <<"sales_trend_7", rnd.trend_7>>,
          <<"sales_trend_28", rnd.trend_28>>,
          <<"price_change", rnd.price_change>>,
          <<"price_vs_mean", (data.sell_price * 100) \div 300>>,
          <<"is_event", 0>> >>

\* number of datetime.now() calls of prepare_features
DashboardFeatureClockCalls == 6

\* the column names of a feature DataFrame, in order
Columns(features) == [i \in 1..Len(features) |-> features[i][1]]
\* features[name]
Feature(features, name) ==
    features[CHOOSE i \in 1..Len(features) : features[i][1] = name][2]

\* mutant: the fallback uses the multipliers of prepare_features_for_model
generate_fallback_prediction_as_features(data, variation) ==
    Max(10, (features_base_sales(data) * variation) \div 100)

\* app.py generate_fallback_prediction, api/index.py generate_prediction
generate_fallback_prediction(data, variation) ==
    LET b0 == 500
        b1 == IF data.cat_id = "FOODS" THEN (b0 * 130) \div 100
              ELSE IF data.cat_id = "HOUSEHOLD" THEN (b0 * 80) \div 100
              ELSE IF data.cat_id = "HOBBIES" THEN (b0 * 90) \div 100
              ELSE b0
        price == data.sell_price
        base_sales == IF price > 500 THEN (b1 * 70) \div 100
                      ELSE IF price < 200 THEN (b1 * 140) \div 100
                      ELSE b1
    IN Max(10, (base_sales * variation) \div 100)

(***************************************************************************)
(* Forecast expansion of the three /predict handlers.                      *)
(***************************************************************************)
\* len(range(days_ahead))
SeriesLen(days_ahead) == Max(0, days_ahead)

\* dates = [(datetime.now() + timedelta(days=i)).strftime('%Y-%m-%d')
\*          for i in range(1, days_ahead + 1)]; every element calls now()
forecast_dates(days_ahead, day, cross, k0) ==
    [i \in 1..SeriesLen(days_ahead) |-> strftime(now(day, cross, k0 + i) + i)]

\* mutant: the loop stops one day short of the horizon
app_predictions_truncated(base_pred, days_ahead, trend, noise) ==
    [j \in 1..SeriesLen(days_ahead - 1) |->
        LET i == j - 1
            drift == (base_pred * (700 + trend * i)) \div 700
            daily_pred == (drift * (100 + noise[j])) \div 100
        IN Max(10, daily_pred)]

\* app.py: daily_pred = base_pred * (1 + trend * i/7) * (1 + normal(0, 0.15));
\* predictions.append(max(0.1, daily_pred)) for i in range(days_ahead)
app_predictions(base_pred, days_ahead, trend, noise) ==
    [j \in 1..SeriesLen(days_ahead) |->
        LET i == j - 1
            drift == (base_pred * (700 + trend * i)) \div 700
            daily_pred == (drift * (100 + noise[j])) \div 100
        IN Max(10, daily_pred)]

\* dashboard_backend.py: daily_pred = base_pred * (1 + normal(0, 0.1));
\* predictions.append(max(0, daily_pred))
dashboard_predictions(base_pred, days_ahead, noise) ==
    [j \in 1..SeriesLen(days_ahead) |->
        Max(0, (base_pred * (100 + noise[j])) \div 100)]

\* api/index.py: daily_pred = prediction * (1 + normal(0, 0.1));
\* predictions.append(max(0.1, daily_pred))
api_predictions(prediction, days_ahead, noise) ==
    [j \in 1..SeriesLen(days_ahead) |->
        Max(10, (prediction * (100 + noise[j])) \div 100)]

\* std_dev = np.std(predictions) if len(predictions) > 1 else prediction * f
forecast_std_dev(predictions, prediction, fallback) ==
    IF Len(predictions) > 1 THEN np_std(predictions)
    ELSE (prediction * fallback) \div 100

\* upper_bound = [p + 1.96 * std_dev for p in predictions]
upper_bound_of(predictions, std_dev) ==
    [i \in 1..Len(predictions) |-> predictions[i] + (196 * std_dev) \div 100]

\* mutant: the lower bound is not clamped at 0
lower_bound_unclamped(predictions, std_dev) ==
    [i \in 1..Len(predictions) |-> predictions[i] - (196 * std_dev) \div 100]

\* lower_bound = [max(0, p - 1.96 * std_dev) for p in predictions]
lower_bound_of(predictions, std_dev) ==
    [i \in 1..Len(predictions) |-> Max(0, predictions[i] - (196 * std_dev) \div 100)]

\* app.py: min(95, max(80, 92 - (std_dev / prediction * 50) if prediction > 0 else 85))
app_confidence(std_dev, prediction) ==
    Min(9500, Max(8000, IF prediction > 0
                        THEN 9200 - (std_dev * 5000) \div prediction
                        ELSE 8500))

\* dashboard_backend.py:
\* min(95, max(70, 90 - (std_dev / prediction * 100) if prediction > 0 else 70))
dashboard_confidence(std_dev, prediction) ==
    Min(9500, Max(7000, IF prediction > 0
                        THEN 9000 - (std_dev * 10000) \div prediction
                        ELSE 7000))

\* mutant: the first prediction of a day restarts the daily counter without
\* counting in the total
update_stats_new_day_uncounted(st, day, cross, k) ==
    IF st.last_reset # now(day, cross, k + 1)
    THEN [st EXCEPT !.daily_predictions = 1,
                    !.last_reset = now(day, cross, k + 2)]
    ELSE [st EXCEPT !.total_predictions = @ + 1,
                    !.daily_predictions = @ + 1]

\* the stats update of the three /predict handlers; k: the number of
\* datetime.now() calls made before it
update_stats(st, day, cross, k) ==
    IF st.last_reset # now(day, cross, k + 1)
    THEN [st EXCEPT !.total_predictions = @ + 1,
                    !.daily_predictions = 1,
                    !.last_reset = now(day, cross, k + 2)]
    ELSE [st EXCEPT !.total_predictions = @ + 1,
                    !.daily_predictions = @ + 1]

\* number of datetime.now() calls of the stats update
StatsClockCalls(st, day, cross, k) ==
    IF st.last_reset # now(day, cross, k + 1) THEN 2 ELSE 1

(***************************************************************************)
(* Request handlers.                                                       *)
(*   request: the PredictionRequest; out: what model.predict returns       *)
(*   (Returns(v) or Raises); rnd: the np.random draws; cross: the          *)
(*   datetime.now() call before which midnight passes (0: none);           *)
(*   rt: the measured response time.                                       *)
(*   Besides the fields of the HTTP body, the record of a response keeps   *)
(*   rnd and clock, the draws and the wall clock the request ran with.     *)
(***************************************************************************)
\* model.predict(features_df)[0] returns v / model.predict raises
Returns(v) == [ok |-> TRUE, value |-> v]
Raises == [ok |-> FALSE, value |-> 0]

ErrorResponse(prog, request, detail) ==
    [op |-> "predict", program |-> prog, status |-> 500, request |-> request,
     detail |-> detail]

\* app.py: @app.post("/predict") predict_sales
predict_sales(request, out, rnd, cross, rt) ==
    /\ program = app_py
    /\ started
    /\ LET n == SeriesLen(request.days_ahead)
           kf == IF model # None THEN 1 + FeatureClockCalls ELSE 1
       IN IF model # None /\ ~out.ok
          THEN \* model.predict raised: except -> HTTPException(500)
               /\ cross <= kf
               /\ today' = now(today, cross, kf)
               /\ today' <= StartDay + MaxTicks
               /\ resp' = ErrorResponse(program, request, "Prediction error")
               /\ UNCHANGED <<stats, completed>>
          ELSE /\ out.ok
               /\ LET features ==
                          IF model # None
                          THEN prepare_features_for_model(request, today, cross, 1,
                                                          pyhash, rnd.f)
                          ELSE <<>>
                      prediction ==
                          IF model # None THEN Max(0, out.value)
                          ELSE generate_fallback_prediction(request, rnd.variation)
                      dates == forecast_dates(request.days_ahead, today, cross, kf)
                      predictions == app_predictions(prediction, request.days_ahead,
                                                     rnd.trend, rnd.noise)
                      std_dev == forecast_std_dev(predictions, prediction, 25)
                      upper_bound == upper_bound_of(predictions, std_dev)
                      lower_bound == lower_bound_of(predictions, std_dev)
                      confidence == app_confidence(std_dev, prediction)
                      revenue_impact == (SumSeq(predictions) * request.sell_price) \div 100
                      ks == kf + n
                      last == ks + StatsClockCalls(stats, today, cross, ks) + 1
                  IN /\ cross <= last
                     /\ today' = now(today, cross, last)
                     /\ today' <= StartDay + MaxTicks
                     /\ stats' = [update_stats(stats, today, cross, ks) EXCEPT
                                     !.avg_response_time = (@ + rt) \div 2]
                     /\ completed' = completes(completed, now(today, cross, last))
                     /\ resp' = [op |-> "predict", program |-> program,
                                 status |-> 200, request |-> request,
                                 features |-> features,
                                 predicted_sales |-> prediction,
                                 confidence |-> round1(confidence),
                                 revenue_impact |-> revenue_impact,
                                 dates |-> dates,
                                 predictions |-> predictions,
                                 upper_bound |-> upper_bound,
                                 lower_bound |-> lower_bound,
                                 model_loaded |-> (model # None),
                                 rnd |-> rnd,
                                 clock |-> [day |-> today, cross |-> cross]]
    /\ UNCHANGED <<program, started, model, encoders, model_info, pyhash, artifacts>>

\* dashboard_backend.py: @app.post("/predict") predict_sales
dashboard_predict_sales(request, out, rnd, cross) ==
    /\ program = dashboard_backend_py
    /\ started
    /\ LET n == SeriesLen(request.days_ahead)
           kf == DashboardFeatureClockCalls
       IN IF model = None
          THEN /\ cross = 0
               /\ resp' = ErrorResponse(program, request, "Model not loaded")
               /\ UNCHANGED <<stats, completed, today>>
          ELSE IF ~out.ok
          THEN /\ cross <= kf
               /\ today' = now(today, cross, kf)
               /\ today' <= StartDay + MaxTicks
               /\ resp' = ErrorResponse(program, request, "Prediction error")
               /\ UNCHANGED <<stats, completed>>
          ELSE /\ LET features == prepare_features(request, today, cross, 0, rnd.f)
                      prediction == Max(0, out.value)
                      dates == forecast_dates(request.days_ahead, today, cross, kf)
                      predictions == dashboard_predictions(prediction, request.days_ahead,
                                                           rnd.noise)
                      std_dev == forecast_std_dev(predictions, prediction, 20)
                      upper_bound == upper_bound_of(predictions, std_dev)
                      lower_bound == lower_bound_of(predictions, std_dev)
                      confidence == dashboard_confidence(std_dev, prediction)
                      revenue_impact ==
                          (((prediction * request.sell_price) \div 100) * request.days_ahead)
                      ks == kf + n
                      last == ks + StatsClockCalls(stats, today, cross, ks)
                  IN /\ cross <= last
                     /\ today' = now(today, cross, last)
                     /\ today' <= StartDay + MaxTicks
                     /\ stats' = update_stats(stats, today, cross, ks)
                     /\ completed' = completes(completed, now(today, cross, last))
                     /\ resp' = [op |-> "predict", program |-> program,
                                 status |-> 200, request |-> request,
                                 features |-> features,
                                 predicted_sales |-> prediction,
                                 confidence |-> round1(confidence),
                                 revenue_impact |-> revenue_impact,
                                 dates |-> dates,
                                 predictions |-> predictions,
                                 upper_bound |-> upper_bound,
                                 lower_bound |-> lower_bound,
                                 rnd |-> rnd,
                                 clock |-> [day |-> today, cross |-> cross]]
    /\ UNCHANGED <<program, started, model, encoders, model_info, pyhash, artifacts>>

\* api/index.py: @app.post("/predict") predict_sales
api_predict_sales(request, rnd, cross) ==
    /\ program = api_index_py
    /\ started
    /\ LET n == SeriesLen(request.days_ahead)
           prediction == generate_fallback_prediction(request, rnd.variation)
           dates == forecast_dates(request.days_ahead, today, cross, 0)
           predictions == api_predictions(prediction, request.days_ahead, rnd.noise)
           \* confidence = np.random.uniform(85, 95)
           confidence == rnd.conf
           revenue_impact == (SumSeq(predictions) * request.sell_price) \div 100
           last == n + StatsClockCalls(stats, today, cross, n)
       IN /\ cross <= last
          /\ today' = now(today, cross, last)
          /\ today' <= StartDay + MaxTicks
          /\ stats' = update_stats(stats, today, cross, n)
          /\ completed' = completes(completed, now(today, cross, last))
          /\ resp' = [op |-> "predict", program |-> program,
                      status |-> 200, request |-> request,
                      predicted_sales |-> prediction,
                      confidence |-> round1(confidence),
                      revenue_impact |-> revenue_impact,
                      dates |-> dates,
                      predictions |-> predictions,
                      rnd |-> rnd,
                      clock |-> [day |-> today, cross |-> cross]]
    /\ UNCHANGED <<program, started, model, encoders, model_info, pyhash, artifacts>>

\* the fields PredictionRequest requires; days_ahead has a default
RequiredFields == {"item_id", "store_id", "dept_id", "cat_id", "state_id", "sell_price"}

\* PredictionRequest(**item_data, days_ahead=request.days_ahead) is built:
\* no required field is missing and days_ahead is not given twice
PredictionRequest_ok(item_data) ==
    /\ RequiredFields \subseteq DOMAIN item_data
    /\ "days_ahead" \notin DOMAIN item_data

\* mutant: the prediction of an item is not clamped at 0
batch_result_unclamped(item_data, days_ahead, out) ==
    IF PredictionRequest_ok(item_data) /\ out.ok
    THEN [item_id |-> item_data.item_id,
          store_id |-> item_data.store_id,
          predicted_sales |-> out.value,
          revenue_impact |->
              ((out.value * item_data.sell_price) \div 100) * days_ahead]
    ELSE [item_id |-> IF "item_id" \in DOMAIN item_data THEN item_data.item_id
                      ELSE "unknown",
          error |-> IF PredictionRequest_ok(item_data) THEN "prediction error"
                    ELSE "validation error"]

\* predict_batch: the body of the loop, the entry appended for one item;
\* out is what model.predict returns for the item's features
batch_result(item_data, days_ahead, out) ==
    IF PredictionRequest_ok(item_data) /\ out.ok
    THEN LET prediction == Max(0, out.value)
         IN [item_id |-> item_data.item_id,
             store_id |-> item_data.store_id,
             predicted_sales |-> prediction,
             revenue_impact |->
                 ((prediction * item_data.sell_price) \div 100) * days_ahead]
    ELSE [item_id |-> IF "item_id" \in DOMAIN item_data THEN item_data.item_id
                      ELSE "unknown",
          error |-> IF PredictionRequest_ok(item_data) THEN "prediction error"
                    ELSE "validation error"]

\* mutant: the handler does not look at model before the loop, and every item
\* fails on model.predict
predict_batch_unguarded(items, days_ahead, outs) ==
    /\ program = dashboard_backend_py
    /\ started
    /\ Len(outs) = Len(items)
    /\ resp' = [op |-> "predict_batch", program |-> program, status |-> 200,
                items |-> items, days_ahead |-> days_ahead, outs |-> outs,
                predictions |-> [i \in 1..Len(items) |->
                                    batch_result(items[i], days_ahead,
                                                 IF model = None THEN Raises ELSE outs[i])],
                total_items |-> Len(items)]
    /\ UNCHANGED <<program, started, model, encoders, model_info, stats, pyhash,
                   artifacts, today, completed>>

\* dashboard_backend.py: @app.post("/predict/batch") predict_batch; outs[i]
\* is what model.predict returns for item i
predict_batch(items, days_ahead, outs) ==
    /\ program = dashboard_backend_py
    /\ started
    /\ Len(outs) = Len(items)
    /\ resp' = IF model = None
               THEN [op |-> "predict_batch", program |-> program, status |-> 500,
                     detail |-> "Model not loaded"]
               ELSE [op |-> "predict_batch", program |-> program, status |-> 200,
                     items |-> items, days_ahead |-> days_ahead, outs |-> outs,
                     predictions |-> [i \in 1..Len(items) |->
                                         batch_result(items[i], days_ahead, outs[i])],
                     total_items |-> Len(items)]
    /\ UNCHANGED <<program, started, model, encoders, model_info, stats, pyhash,
                   artifacts, today, completed>>

\* @app.get("/stats") get_stats of the three servers
get_stats ==
    /\ program \in Servers
    /\ started
    /\ resp' = [op |-> "stats", program |-> program, status |-> 200,
                total_predictions |-> stats.total_predictions,
                daily_predictions |-> stats.daily_predictions,
                model_name |-> IF program = api_index_py THEN None
                               ELSE IF "model_name" \in DOMAIN model_info
                                    THEN model_info.model_name
                                    ELSE IF program = app_py
                                         THEN "Smart Forecasting Model"
                                         ELSE "Improved Forecasting Model",
                model_loaded |-> IF program = app_py THEN model # None ELSE None,
                last_updated |-> today]
    /\ UNCHANGED <<program, started, model, encoders, model_info, stats, pyhash,
                   artifacts, today, completed>>

\* @app.get("/health") health_check of the three servers
health_check ==
    /\ program \in Servers
    /\ started
    /\ resp' = [op |-> "health", program |-> program, status |-> 200,
                health |-> "healthy",
                model_loaded |-> IF program = api_index_py THEN None ELSE model # None,
                total_predictions |-> IF program = app_py
                                      THEN stats.total_predictions ELSE None,
                timestamp |-> today]
    /\ UNCHANGED <<program, started, model, encoders, model_info, stats, pyhash,
                   artifacts, today, completed>>

\* mutant: the handler writes the feature count into the global model_info
get_model_info_mutating ==
    /\ program \in {app_py, dashboard_backend_py}
    /\ started
    /\ resp' = [op |-> "model_info", program |-> program, status |-> 200,
                model_info |-> model_info]
    /\ model_info' = [feature_count |-> 0, model_name |-> "Smart Forecasting Model"]
    /\ UNCHANGED <<program, started, model, encoders, stats, pyhash,
                   artifacts, today, completed>>

\* app.py @app.get("/api/model/info"), dashboard_backend.py @app.get("/model/info")
get_model_info ==
    /\ program \in {app_py, dashboard_backend_py}
    /\ started
    /\ resp' = IF program = dashboard_backend_py /\ model = None
               THEN [op |-> "model_info", program |-> program, status |-> 500,
                     detail |-> "Model not loaded"]
               ELSE [op |-> "model_info", program |-> program, status |-> 200,
                     model_info |-> model_info,
                     feature_count |-> IF "feature_columns" \in DOMAIN model_info
                                       THEN Len(model_info.feature_columns) ELSE 0,
                     model_type |-> IF model # None THEN model ELSE "Fallback",
                     is_loaded |-> (model # None)]
    /\ UNCHANGED <<program, started, model, encoders, model_info, stats, pyhash,
                   artifacts, today, completed>>

(***************************************************************************)
(* The evaluation scripts.                                                 *)
(***************************************************************************)
evaluate_improved_model_py == "src/evaluation/evaluate_improved_model.py"
evaluate_best_model_py == "src/evaluation/evaluate_best_model.py"
EvaluationScripts == {evaluate_improved_model_py, evaluate_best_model_py}

\* evaluate_improved_model / load_model_and_data: joblib.load and json.load of
\* the three artifacts, outside any try block
evaluate_load ==
    /\ program \in EvaluationScripts
    /\ ~started
    /\ resp.op # "crashed"
    /\ IF \E a \in ArtifactNames : artifacts[a] # "ok"
       THEN /\ resp' = [op |-> "crashed", program |-> program]
            /\ UNCHANGED <<started, model, encoders, model_info>>
       ELSE /\ started' = TRUE
            /\ model' = Regressor
            /\ encoders' = TrainedEncoders
            /\ model_info' = SavedModelInfo
            /\ UNCHANGED resp
    /\ UNCHANGED <<program, stats, pyhash, artifacts, today, completed>>

\* encoders[col].transform([x])[0] if x in encoders[col].classes_ else 0,
\* and 0 for a column that has no encoder
encode_or_zero(encs, col, x) ==
    IF col \in DOMAIN encs
    THEN IF InClasses(encs[col], x) THEN LabelEncoder_transform(encs[col], x) ELSE 0
    ELSE 0

\* evaluate_improved_model.py / evaluate_best_model.py prepare_evaluation_data:
\* the '<col>_encoded' columns of one row of the evaluation table
evaluate_encode(row) ==
    /\ program \in EvaluationScripts
    /\ started
    /\ resp' = [op |-> "evaluate", program |-> program, row |-> row,
                encoded |-> [col \in DOMAIN row |-> encode_or_zero(encoders, col, row[col])]]
    /\ UNCHANGED <<program, started, model, encoders, model_info, stats, pyhash,
                   artifacts, today, completed>>

(***************************************************************************)
(* Training scripts: the feature engineering of create_improved_model.py   *)
(* and save_working_model.py.  A table lists, for every id, the sales of   *)
(* its days d_1, d_2, ... in date order; a cell of a column is <<v>> or,   *)
(* for NaN, <<>>.                                                          *)
(***************************************************************************)
create_improved_model_py == "src/scripts/create_improved_model.py"
save_working_model_py == "src/scripts/save_working_model.py"
TrainingScripts == {create_improved_model_py, save_working_model_py}
production_forecasting_system_py == "src/scripts/production_forecasting_system.py"

Abs(x) == IF x < 0 THEN 0 - x ELSE x

\* y[mask]: the entries of y at the positions where mask is True
RECURSIVE BoolIndex(_, _)
BoolIndex(y, mask) ==
    IF y = <<>> THEN <<>>
    ELSE (IF Head(mask) THEN <<Head(y)>> ELSE <<>>)
             \o BoolIndex(Tail(y), Tail(mask))

\* mutant: the mean is taken over every entry of y_true
safe_mape_unmasked(y_true, y_pred) ==
    LET mask == [i \in 1..Len(y_true) |-> y_true[i] # 0]
        t == BoolIndex(y_true, mask)
        p == BoolIndex(y_pred, mask)
    IN IF Len(t) = 0 THEN 0
       ELSE SumSeq([i \in 1..Len(t) |-> (Abs(t[i] - p[i]) * 10000) \div Abs(t[i])])
                \div Len(y_true)

\* safe_mape, the same function in app.py, create_improved_model.py and
\* production_forecasting_system.py; the result is a percentage in hundredths
safe_mape(y_true, y_pred) ==
    LET mask == [i \in 1..Len(y_true) |-> y_true[i] # 0]
        t == BoolIndex(y_true, mask)
        p == BoolIndex(y_pred, mask)
    IN IF Len(t) = 0 THEN 0
       ELSE SumSeq([i \in 1..Len(t) |-> (Abs(t[i] - p[i]) * 10000) \div Abs(t[i])])
                \div Len(t)

\* the programs that define safe_mape
MapePrograms == {app_py, create_improved_model_py, production_forecasting_system_py}

\* the first call of safe_mape in a run, on arrays of equal length
call_safe_mape(y_true, y_pred) ==
    /\ program \in MapePrograms
    /\ resp = NoResponse
    /\ Len(y_true) = Len(y_pred)
    /\ resp' = [op |-> "safe_mape", program |-> program, y_true |-> y_true,
                y_pred |-> y_pred, result |-> safe_mape(y_true, y_pred)]
    /\ UNCHANGED <<program, started, model, encoders, model_info, stats, pyhash,
                   artifacts, today, completed>>

NaN == <<>>

\* the rows rolling(window, min_periods=1) sees at row i of one id
RollingWindow(sales, window, i) == SubSeq(sales, Max(1, i - window + 1), i)

\* pandas std of a window: sqrt(sum((x - mean)^2) / (n - 1)), NaN for n < 2
pd_std(xs) ==
    LET n == Len(xs)
        s == SumSeq(xs)
        q == SumSeq([i \in 1..n |-> xs[i] * xs[i]])
    IN IF n < 2 THEN NaN ELSE <<ISqrt((n * q - s * s) \div (n * (n - 1)))>>

RECURSIVE SeqMax(_)
SeqMax(xs) == IF Len(xs) = 1 THEN xs[1] ELSE Max(xs[1], SeqMax(Tail(xs)))
RECURSIVE SeqMin(_)
SeqMin(xs) == IF Len(xs) = 1 THEN xs[1] ELSE Min(xs[1], SeqMin(Tail(xs)))

\* groupby('id')['sales'].rolling(window, min_periods=1).mean() / .std() /
\* .max() / .min(): one column, a sequence of cells per id
rolling_mean(table, window) ==
    [g \in 1..Len(table) |-> [i \in 1..Len(table[g]) |->
        LET w == RollingWindow(table[g], window, i) IN <<SumSeq(w) \div Len(w)>>]]
rolling_std(table, window) ==
    [g \in 1..Len(table) |-> [i \in 1..Len(table[g]) |->
        pd_std(RollingWindow(table[g], window, i))]]
rolling_max(table, window) ==
    [g \in 1..Len(table) |-> [i \in 1..Len(table[g]) |->
        <<SeqMax(RollingWindow(table[g], window, i))>>]]
rolling_min(table, window) ==
    [g \in 1..Len(table) |-> [i \in 1..Len(table[g]) |->
        <<SeqMin(RollingWindow(table[g], window, i))>>]]

\* mutant: shift over the whole frame, without groupby('id')
shift_ungrouped(table, lag) ==
    [g \in 1..Len(table) |-> [i \in 1..Len(table[g]) |->
        IF i - lag >= 1 THEN <<table[g][i - lag]>>
        ELSE IF g > 1 /\ Len(table[g - 1]) + i - lag >= 1
             THEN <<table[g - 1][Len(table[g - 1]) + i - lag]>>
        ELSE NaN]]

\* groupby('id')['sales'].shift(lag)
shift(table, lag) ==
    [g \in 1..Len(table) |-> [i \in 1..Len(table[g]) |->
        IF i - lag >= 1 THEN <<table[g][i - lag]>> ELSE NaN]]

\* groupby('id')['sales'].pct_change(periods), in hundredths, after
\* replace([np.inf, -np.inf], np.nan): a division by 0 gives NaN
pct_change(table, periods) ==
    [g \in 1..Len(table) |-> [i \in 1..Len(table[g]) |->
        IF i - periods < 1 THEN NaN
        ELSE IF table[g][i - periods] = 0 THEN NaN
        ELSE <<((table[g][i] - table[g][i - periods]) * 100)
                   \div table[g][i - periods]>>]]

\* the rows of melted_data: <<g, i>> is the row of id g with d_num = i, as
\* melt gives every id the columns d_1, d_2, ... in date order
Rows(table) ==
    UNION {{<<g, i>> : i \in 1..Len(table[g])} : g \in 1..Len(table)}

\* the day numbers of the training rows
TrainFirst == 500
TrainLast == 1800

\* train_data, then X_train[non_zero_mask]
train_rows(table) ==
    {r \in Rows(table) : /\ r[2] >= TrainFirst
                          /\ r[2] <= TrainLast
                          /\ table[r[1]][r[2]] > 0}

\* mutant: the validation rows start on the last training day
val_rows_from_last_training_day(table) == {r \in Rows(table) : r[2] >= TrainLast}

\* val_data
val_rows(table) == {r \in Rows(table) : r[2] > TrainLast}

\* the defined values of a column, over all ids
RECURSIVE Defined(_)
Defined(column) ==
    IF column = <<>> THEN <<>>
    ELSE SelectSeq(Head(column), LAMBDA c : c # NaN) \o Defined(Tail(column))

RECURSIVE SortCells(_)
SortCells(cells) ==
    IF cells = <<>> THEN <<>>
    ELSE LET k == CHOOSE j \in 1..Len(cells) :
                      \A l \in 1..Len(cells) : cells[j][1] <= cells[l][1]
         IN <<cells[k]>> \o SortCells(SubSeq(cells, 1, k - 1)
                                     \o SubSeq(cells, k + 1, Len(cells)))

\* df[col].median(): NaN are skipped; NaN when no value is defined
median(column) ==
    LET v == SortCells(Defined(column))
        n == Len(v)
    IN IF n = 0 THEN NaN
       ELSE IF n % 2 = 1 THEN v[(n + 1) \div 2]
       ELSE <<(v[n \div 2][1] + v[n \div 2 + 1][1]) \div 2>>

\* df.fillna(value)
fillna(column, value) ==
    [g \in 1..Len(column) |-> [i \in 1..Len(column[g]) |->
        IF column[g][i] = NaN THEN <<value>> ELSE column[g][i]]]

\* production_forecasting_system.py: modeling_data, the rows left by
\* dropna(subset=feature_cols + ['sales']): those with all four sales lags
modeling_rows(table) ==
    LET sales_lag == [lag \in {1, 7, 14, 28} |-> shift(table, lag)]
    IN {r \in Rows(table) :
           \A lag \in {1, 7, 14, 28} : sales_lag[lag][r[1]][r[2]] # NaN}

\* modeling_data['date'].max(), as a day number
max_date(rows) == CHOOSE d \in {r[2] : r \in rows} : \A r \in rows : r[2] <= d

\* the number of days of the test period
TestDays == 28

\* production_forecasting_system.py: the train/test split of the rows that
\* have all their features; the table has more than 28 days
production_forecasting_system(table) ==
    /\ program = production_forecasting_system_py
    /\ ~started
    /\ started' = TRUE
    /\ \E modeling_data \in {modeling_rows(table)} :
          /\ modeling_data # {}
          /\ \E test_start \in {max_date(modeling_data) - (TestDays - 1)} :
                resp' = [op |-> "split", program |-> program, table |-> table,
                         train |-> {r \in modeling_data : r[2] < test_start},
                         val |-> {r \in modeling_data : r[2] >= test_start}]
    /\ UNCHANGED <<program, model, encoders, model_info, stats, pyhash,
                   artifacts, today, completed>>

\* mutant: clean_data returns the column as it came
clean_data_unfilled(column) == column

\* save_working_model.py clean_data, for one numeric column: NaN become the
\* median of the column, or 0 when the median is NaN
clean_data(column) ==
    IF median(column) = NaN THEN fillna(column, 0)
    ELSE fillna(column, median(column)[1])

\* create_improved_model.py: the lag and rolling columns of melted_data after
\* melted_data.fillna(0)
create_improved_model(table) ==
    /\ program = create_improved_model_py
    /\ ~started
    /\ started' = TRUE
    /\ resp' = [op |-> "train", program |-> program, table |-> table,
                lag |-> [l \in {1, 7, 14, 28, 56} |-> fillna(shift(table, l), 0)],
                rolling_mean |-> [w \in {3, 7, 14, 28} |->
                                     fillna(rolling_mean(table, w), 0)],
                rolling_std |-> [w \in {3, 7, 14, 28} |->
                                    fillna(rolling_std(table, w), 0)],
                rolling_max |-> [w \in {3, 7, 14, 28} |->
                                    fillna(rolling_max(table, w), 0)],
                rolling_min |-> [w \in {3, 7, 14, 28} |->
                                    fillna(rolling_min(table, w), 0)],
                sales_trend |-> [p \in {7, 28} |->
                                    fillna(pct_change(table, p), 0)],
                train |-> train_rows(table),
                val |-> val_rows(table)]
    \* save_improved_model writes the three artifacts; fit raises on an
    \* empty training set
    /\ artifacts' = IF train_rows(table) = {} THEN artifacts
                    ELSE [a \in ArtifactNames |-> "ok"]
    /\ UNCHANGED <<program, model, encoders, model_info, stats, pyhash, today, completed>>

\* save_working_model.py create_and_save_production_model: the lag and
\* rolling columns of melted_data after clean_data
create_and_save_production_model(table) ==
    /\ program = save_working_model_py
    /\ ~started
    /\ started' = TRUE
    /\ resp' = [op |-> "train", program |-> program, table |-> table,
                lag |-> [l \in {7, 14, 28} |-> clean_data(shift(table, l))],
                rolling_mean |-> [w \in {7, 14} |->
                                     clean_data(rolling_mean(table, w))],
                rolling_std |-> [w \in {7, 14} |->
                                    clean_data(rolling_std(table, w))]]
    /\ UNCHANGED <<program, model, encoders, model_info, stats, pyhash,
                   artifacts, today, completed>>

(***************************************************************************)
(* Specifications.  In is the record of the input sets of a specification: *)
(*   requests, outs (model.predict results), variations, trends, noises,   *)
(*   confs, fdraws (np.random draws), crosses, rts, hashes, rows, and cap,  *)
(*   the number of predictions after which no further /predict is sent.    *)
(***************************************************************************)
Draw(variation, trend, noise, conf, f) ==
    [variation |-> variation, trend |-> trend, noise |-> noise, conf |-> conf, f |-> f]

AppStart(In) == \E h \in In.hashes : load_model(h)

AppPredict(In) ==
    /\ stats.total_predictions < In.cap
    /\ \E request \in In.requests, cross \in In.crosses, rt \in In.rts, f \in In.fdraws :
      \E out \in (IF model = None THEN {Returns(0)} ELSE In.outs),
         variation \in (IF model = None THEN In.variations ELSE {0}),
         trend \in In.trends,
         noise \in [1..SeriesLen(request.days_ahead) -> In.noises] :
        predict_sales(request, out, Draw(variation, trend, noise, 0, f), cross, rt)

DashboardPredict(In) ==
    /\ stats.total_predictions < In.cap
    /\ \E request \in In.requests, cross \in In.crosses, f \in In.dfdraws :
      \E out \in (IF model = None THEN {Returns(0)} ELSE In.outs),
         noise \in [1..SeriesLen(request.days_ahead) -> In.noises] :
        dashboard_predict_sales(request, out, Draw(0, 0, noise, 0, f), cross)

ApiPredict(In) ==
    /\ stats.total_predictions < In.cap
    /\ \E request \in In.requests, cross \in In.crosses,
       variation \in In.variations, conf \in In.confs :
      \E noise \in [1..SeriesLen(request.days_ahead) -> In.noises] :
        api_predict_sales(request, Draw(variation, 0, noise, conf, <<>>), cross)

Evaluate(In) == \E row \in In.rows : evaluate_encode(row)

NextWith(In) ==
    \/ AppStart(In)
    \/ dashboard_load
    \/ api_load
    \/ evaluate_load
    \/ AppPredict(In)
    \/ DashboardPredict(In)
    \/ ApiPredict(In)
    \/ Evaluate(In)
    \/ get_stats
    \/ health_check
    \/ get_model_info
    \/ restart
    \/ tick

AllOk == [a \in ArtifactNames |-> "ok"]
AllMissing == [a \in ArtifactNames |-> "missing"]

\* np.random.normal draws of prepare_features_for_model / prepare_features
FeatureDraw(lag, base_sales) ==
    [lag |-> lag, trend_7 |-> 2, trend_28 |-> 1, price_change |-> 0,
     base_sales |-> base_sales]

SampleRequest ==
    [item_id |-> "FOODS_3_090", store_id |-> "CA_1", dept_id |-> "FOODS_3",
     cat_id |-> "FOODS", state_id |-> "CA", sell_price |-> 299, days_ahead |-> 1]

SampleRow ==
    [item_id |-> "FOODS_3_090", store_id |-> "CA_1", dept_id |-> "FOODS_3",
     cat_id |-> "FOODS", state_id |-> "CA"]

\* Forecast expansion: every horizon, clamped and tiny model outputs, every
\* combination of noise draws.
ForecastIn ==
    [requests |-> {[SampleRequest EXCEPT !.days_ahead = d] : d \in (0 - 1)..MaxDays},
     outs |-> {Returns(0 - 100), Returns(4), Returns(650), Raises},
     variations |-> {100},
     trends |-> {0 - 5, 9},
     noises |-> {0 - 150, 15},
     confs |-> {8500, 9321},
     fdraws |-> {FeatureDraw(<<30, 0 - 50, 70, 0 - 100, 120>>, 0)},
     dfdraws |-> {FeatureDraw(<<50, 0 - 100, 150, 0 - 200, 250>>, 500)},
     crosses |-> {0},
     rts |-> {1250},
     hashes |-> {str_hash(1)},
     rows |-> {SampleRow},
     cap |-> MaxForecasts]

InitForecast == InitWith(Servers \cup EvaluationScripts, {AllOk, AllMissing})
NextForecast == NextWith(ForecastIn)
SpecForecast == InitForecast /\ [][NextForecast]_vars

\* The wall clock: every position of midnight among the datetime.now() calls
\* of a request, for every horizon.
ClockIn ==
    [requests |-> {[SampleRequest EXCEPT !.days_ahead = d] : d \in 0..MaxDays},
     outs |-> {Returns(650), Raises},
     variations |-> {100},
     trends |-> {9},
     noises |-> {15},
     confs |-> {9000},
     fdraws |-> {FeatureDraw(<<30, 0 - 50, 70, 0 - 100, 120>>, 0)},
     dfdraws |-> {FeatureDraw(<<50, 0 - 100, 150, 0 - 200, 250>>, 500)},
     crosses |-> 0..(FeatureClockCalls + MaxDays + 4),
     rts |-> {1250},
     hashes |-> {str_hash(1)},
     rows |-> {SampleRow},
     cap |-> MaxForecasts]

InitClock == InitWith(Servers \cup EvaluationScripts, {AllOk, AllMissing})
NextClock == NextWith(ClockIn)
SpecClock == InitClock /\ [][NextClock]_vars

\* Several requests sent to one process, one after the other, with
\* different np.random draws.
RepeatIn ==
    [requests |-> {[SampleRequest EXCEPT !.days_ahead = d] : d \in 1..MaxDays},
     outs |-> {Returns(650)},
     variations |-> {100},
     trends |-> {9},
     noises |-> {0 - 150, 15},
     confs |-> {9000},
     fdraws |-> {FeatureDraw(<<30, 0 - 50, 70, 0 - 100, 120>>, 0)},
     dfdraws |-> {FeatureDraw(<<50, 0 - 100, 150, 0 - 200, 250>>, 500)},
     crosses |-> {0},
     rts |-> {1250},
     hashes |-> {str_hash(1)},
     rows |-> {SampleRow},
     cap |-> MaxPredictions]

InitRepeat == InitWith(Servers \cup EvaluationScripts, {AllOk, AllMissing})
NextRepeat == NextWith(RepeatIn)
SpecRepeat == InitRepeat /\ [][NextRepeat]_vars

\* The category and price heuristics: every category branch, prices on both
\* sides of 2.0 and 5.0, variations that reach the 0.1 floor.
HeuristicIn ==
    [requests |-> {[SampleRequest EXCEPT !.cat_id = c, !.sell_price = p] :
                      c \in {"FOODS", "HOUSEHOLD", "HOBBIES", "NEW_ITEM"},
                      p \in {199, 200, 299, 500, 501}},
     outs |-> {Returns(650)},
     variations |-> {0 - 20, 80, 100},
     trends |-> {9},
     noises |-> {15},
     confs |-> {9000},
     fdraws |-> {FeatureDraw(<<30, 0 - 50, 70, 0 - 100, 120>>, 0)},
     dfdraws |-> {FeatureDraw(<<50, 0 - 100, 150, 0 - 200, 250>>, 500)},
     crosses |-> {0},
     rts |-> {1250},
     hashes |-> {str_hash(1)},
     rows |-> {SampleRow},
     cap |-> MaxForecasts]

InitHeuristic == InitWith(Servers \cup EvaluationScripts, {AllOk, AllMissing})
NextHeuristic == NextWith(HeuristicIn)
SpecHeuristic == InitHeuristic /\ [][NextHeuristic]_vars

\* The training tables: two ids with histories of 1..MaxHistory days.
Sales == {0, 300}
Histories == UNION {[1..n -> Sales] : n \in 1..MaxHistory}
Tables == {<<a, b>> : a \in Histories, b \in Histories}

\* The M5 tables: sales_cols are d_1 .. d_1913.  A long history repeats a
\* two-day pattern.
LastDay == 1913
LongHistory(n, p) == [i \in 1..n |-> p[(i % Len(p)) + 1]]
Patterns == [1..2 -> Sales]
LongTables ==
    {<<LongHistory(LastDay, p), LongHistory(LastDay, q)>> :
        p \in Patterns, q \in {<<300, 0>>}}

InitTraining ==
    InitWith(TrainingScripts \cup {production_forecasting_system_py}, {AllMissing})
NextTraining ==
    \/ \E table \in Tables \cup LongTables : create_improved_model(table)
    \/ \E table \in Tables : create_and_save_production_model(table)
    \/ \E table \in LongTables : production_forecasting_system(table)
SpecTraining == InitTraining /\ [][NextTraining]_vars

\* safe_mape on arrays of 0..MaxHistory entries: true values that are zero,
\* positive and negative, predictions below, at and above them.
TrueValues == {0 - 200, 0, 400}
Predicted == {0, 300, 400}
Arrays(values) == UNION {[1..n -> values] : n \in 0..MaxHistory}

InitMape == InitWith(MapePrograms, {AllMissing})
NextMape ==
    \E y_true \in Arrays(TrueValues) : \E y_pred \in [1..Len(y_true) -> Predicted] :
        call_safe_mape(y_true, y_pred)
SpecMape == InitMape /\ [][NextMape]_vars

\* Feature building: seen, unseen and empty category strings, valid and
\* invalid prices, every value hash() can take, a positive and a negative
\* draw of the simulated base sales.
FeaturesIn ==
    [requests |-> {[SampleRequest EXCEPT !.item_id = i, !.store_id = st,
                                         !.cat_id = c, !.sell_price = p] :
                      i \in {"FOODS_3_090", "NEW_ITEM", ""},
                      st \in {"CA_1", ""},
                      c \in {"FOODS", "HOUSEHOLD"},
                      p \in {0 - 100, 0, 299}},
     outs |-> {Returns(650)},
     variations |-> {100},
     trends |-> {2},
     noises |-> {0},
     confs |-> {9000},
     fdraws |-> {FeatureDraw(<<30, 0 - 50, 70, 0 - 100, 120>>, 0)},
     dfdraws |-> {FeatureDraw(<<50, 0 - 100, 150, 0 - 200, 250>>, 500),
                  FeatureDraw(<<50, 0 - 100, 150, 0 - 200, 250>>, 0 - 100)},
     crosses |-> {0},
     rts |-> {1250},
     hashes |-> {str_hash(1), str_hash(2)},
     rows |-> {[SampleRow EXCEPT !.item_id = i, !.cat_id = c] :
                  i \in {"FOODS_3_090", "HOBBIES_1_001", "NEW_ITEM"},
                  c \in {"FOODS", "HOBBIES", "HOUSEHOLD"}},
     cap |-> MaxForecasts]

InitFeatures ==
    InitWith(Servers \cup EvaluationScripts,
             {AllOk, AllMissing, [AllOk EXCEPT !["info"] = "missing"],
              [AllOk EXCEPT !["encoders"] = "missing"]})
NextFeatures == NextWith(FeaturesIn)
SpecFeatures == InitFeatures /\ [][NextFeatures]_vars

\* The servers over every combination of present, missing and unloadable
\* artifacts, with several predictions per process.
ServerIn ==
    [requests |-> {[SampleRequest EXCEPT !.days_ahead = d] : d \in {1, MaxDays}},
     outs |-> {Returns(650), Raises},
     variations |-> {100},
     trends |-> {2},
     noises |-> {15},
     confs |-> {9000},
     fdraws |-> {FeatureDraw(<<30, 0 - 50, 70, 0 - 100, 120>>, 0)},
     dfdraws |-> {FeatureDraw(<<50, 0 - 100, 150, 0 - 200, 250>>, 500)},
     crosses |-> {0, 1},
     rts |-> {1250},
     hashes |-> {str_hash(1)},
     rows |-> {SampleRow},
     cap |-> MaxPredictions]

\* dashboard_backend.py with its batch endpoint: batches of 0..MaxBatch items,
\* a complete item, an item without item_id and one without sell_price;
\* model.predict returns a positive or a negative value or raises.
BatchIn ==
    [requests |-> {SampleRequest},
     outs |-> {Returns(650), Raises},
     variations |-> {100},
     trends |-> {2},
     noises |-> {15},
     confs |-> {9000},
     fdraws |-> {FeatureDraw(<<30, 0 - 50, 70, 0 - 100, 120>>, 0)},
     dfdraws |-> {FeatureDraw(<<50, 0 - 100, 150, 0 - 200, 250>>, 500)},
     crosses |-> {0},
     rts |-> {1250},
     hashes |-> {str_hash(1)},
     rows |-> {SampleRow},
     cap |-> 1]

SampleItem == [f \in RequiredFields |-> SampleRequest[f]]
BatchItems ==
    {SampleItem,
     [f \in RequiredFields \ {"item_id"} |-> SampleRequest[f]],
     [[f \in RequiredFields \ {"sell_price"} |-> SampleRequest[f]]
         EXCEPT !.item_id = "NEW_ITEM"]}
BatchOuts == {Returns(650), Returns(0 - 100), Raises}

DashboardBatch ==
    \E n \in 0..MaxBatch :
        \E items \in [1..n -> BatchItems], outs \in [1..n -> BatchOuts] :
            predict_batch(items, MaxDays, outs)

InitBatch ==
    InitWith({dashboard_backend_py},
             {AllOk, AllMissing, [AllOk EXCEPT !["encoders"] = "corrupt"]})
NextBatch ==
    \/ dashboard_load
    \/ DashboardPredict(BatchIn)
    \/ DashboardBatch
    \/ get_stats
    \/ health_check
    \/ get_model_info
    \/ restart
SpecBatch == InitBatch /\ [][NextBatch]_vars

Init == InitWith(Servers \cup EvaluationScripts,
                 [ArtifactNames -> {"ok", "missing", "corrupt"}])
Next == NextWith(ServerIn)
Spec == Init /\ [][Next]_vars

(***************************************************************************)
(* Properties.                                                             *)
(***************************************************************************)
\* the last response is a successful /predict response
PredictOk == resp.op = "predict" /\ resp.status = 200
\* ... of a handler that returns confidence bounds
HasBounds == PredictOk /\ resp.program \in {app_py, dashboard_backend_py}

\* C1: in every successful /predict response that carries confidence bounds,
\* 0 <= lower_bound[i] <= predictions[i] <= upper_bound[i] for every index i.
C1_BoundsOrdered ==
    HasBounds =>
        \A i \in 1..Len(resp.predictions) :
            /\ 0 <= resp.lower_bound[i]
            /\ resp.lower_bound[i] <= resp.predictions[i]
            /\ resp.predictions[i] <= resp.upper_bound[i]

\* a response with a positive spread in which a lower bound was clamped to 0,
\* and one whose raw model output was clamped to 0
C1_Witness ==
    /\ HasBounds
    /\ Len(resp.predictions) >= 2
    /\ \E i \in 1..Len(resp.predictions) :
          /\ resp.lower_bound[i] = 0
          /\ resp.predictions[i] > 0
          /\ resp.upper_bound[i] > resp.predictions[i]

\* C2 (as claimed): a successful /predict with days_ahead >= 1 returns series
\* of length days_ahead, and dates[k] is one reference date plus k days.
C2_DatesFromOneReference ==
    (PredictOk /\ resp.request.days_ahead >= 1) =>
        /\ Len(resp.dates) = resp.request.days_ahead
        /\ Len(resp.predictions) = resp.request.days_ahead
        /\ HasBounds => /\ Len(resp.upper_bound) = resp.request.days_ahead
                        /\ Len(resp.lower_bound) = resp.request.days_ahead
        /\ \E ref \in StartDay..(StartDay + MaxTicks) :
              \A k \in 1..Len(resp.dates) : resp.dates[k] = strftime(ref + k)

\* C3 (as claimed): a /predict request with days_ahead < 1 is answered with an
\* error, never with a forecast.
C3_InvalidHorizonRejected ==
    (resp.op = "predict" /\ resp.request.days_ahead < 1) => resp.status # 200

\* C5 (as claimed): when the point estimate is 0 and days_ahead >= 1, every
\* entry of the returned predictions is at least 0.1.
C5_ZeroEstimateFloored ==
    (PredictOk /\ resp.predicted_sales = 0 /\ resp.request.days_ahead >= 1) =>
        \A i \in 1..Len(resp.predictions) : resp.predictions[i] >= 10

\* C6 (as claimed): the confidence of a successful /predict lies in [80, 95],
\* is clamp(92 - (std_dev / point_estimate) * 50, 80, 95) for a positive point
\* estimate and 85 for a point estimate of 0 (compared after the rounding to
\* one decimal that every handler applies to the value it returns).
C6_ConfidenceFormula ==
    PredictOk =>
        LET std_dev == forecast_std_dev(resp.predictions, resp.predicted_sales, 25)
        IN /\ 8000 <= resp.confidence /\ resp.confidence <= 9500
           /\ resp.predicted_sales = 0 => resp.confidence = 8500
           /\ resp.predicted_sales > 0 =>
                resp.confidence =
                    round1(Min(9500, Max(8000,
                        9200 - (std_dev * 5000) \div resp.predicted_sales)))

\* C4 (as claimed): a /predict request whose sell_price is <= 0 or whose
\* item_id or store_id is empty is answered with an error, before any feature
\* vector or forecast is computed.
C4_InvalidInputRejected ==
    (/\ resp.op = "predict"
     /\ \/ resp.request.sell_price <= 0
        \/ resp.request.item_id = ""
        \/ resp.request.store_id = "") => resp.status # 200

\* the feature DataFrame handed to model.predict by the last /predict
FeaturesBuilt == PredictOk /\ resp.program \in {app_py, dashboard_backend_py}
                           /\ resp.features # <<>>

\* C7: the feature vector built for the regressor has exactly the 34 named
\* columns, in the order of the feature_columns the model was trained with and
\* of the feature_columns of the model_info in use (loaded or default).
C7_FeatureColumnsMatch ==
    FeaturesBuilt =>
        /\ Len(resp.features) = 34
        /\ Cardinality({resp.features[i][1] : i \in 1..Len(resp.features)}) = 34
        /\ Columns(resp.features) = feature_columns
        /\ "feature_columns" \in DOMAIN model_info =>
              Columns(resp.features) = model_info.feature_columns

\* app.py built a feature vector while the default model_info was in use
C7_Witness ==
    /\ FeaturesBuilt
    /\ resp.program = app_py
    /\ artifacts["info"] = "missing"
    /\ model_info = DefaultModelInfo

EncodedColumn ==
    [item_id |-> "item_id_encoded", dept_id |-> "dept_id_encoded",
     cat_id |-> "cat_id_encoded", store_id |-> "store_id_encoded",
     state_id |-> "state_id_encoded"]

\* C8 (as claimed): a categorical value that the encoders were not fitted on
\* is encoded as 0, in the serving handlers and in the evaluation scripts.
C8_UnseenEncodesToZero ==
    /\ resp.op = "evaluate" =>
          \A col \in DOMAIN resp.row :
              ~InClasses(TrainedEncoders[col], resp.row[col]) => resp.encoded[col] = 0
    /\ FeaturesBuilt =>
          \A col \in DOMAIN EncodedColumn :
              ~InClasses(TrainedEncoders[col], resp.request[col]) =>
                  Feature(resp.features, EncodedColumn[col]) = 0

\* C9 (as claimed): the code a categorical string receives at inference time
\* is the code the persisted encoder assigned to it at training time.
C9_InferenceCodeIsTrainingCode ==
    FeaturesBuilt =>
        \A col \in DOMAIN EncodedColumn :
            InClasses(TrainedEncoders[col], resp.request[col]) =>
                Feature(resp.features, EncodedColumn[col]) =
                    LabelEncoder_transform(TrainedEncoders[col], resp.request[col])

\* C10: once startup has finished, no step of a running server changes model,
\* encoders or model_info.
C10_LoadedStateFrame ==
    [][(started /\ started') =>
           (model' = model /\ encoders' = encoders /\ model_info' = model_info)]_vars

\* app.py has loaded the model and has answered /predict and then another request
C10_Witness ==
    /\ program = app_py
    /\ started
    /\ model # None
    /\ encoders = TrainedEncoders
    /\ stats.total_predictions >= 1
    /\ resp.op = "model_info"

\* C11: a /predict request writes no state that a later request reads: no
\* /predict answered by a running server changes the module-level stats.
C11_PredictWritesNoSharedState ==
    [][(started /\ started' /\ resp'.op = "predict") => stats' = stats]_vars

\* the series of a successful response all have the same length, which is
\* days_ahead for a horizon of at least one day
CompleteResult ==
    /\ {"predicted_sales", "confidence", "revenue_impact", "dates", "predictions"}
           \subseteq DOMAIN resp
    /\ Len(resp.dates) = Len(resp.predictions)
    /\ resp.request.days_ahead >= 1 => Len(resp.predictions) = resp.request.days_ahead
    /\ HasBounds => /\ Len(resp.upper_bound) = Len(resp.predictions)
                    /\ Len(resp.lower_bound) = Len(resp.predictions)
\* an error response carries a status and a detail and no part of a result
ErrorOnly ==
    DOMAIN resp = {"op", "program", "status", "request", "detail"}

\* C12: every /predict ends either in a complete result or in an error
\* response with no part of a result, and a request that ends in an error
\* leaves total_predictions, daily_predictions, last_reset and
\* avg_response_time as they were.
C12_CompleteOrError ==
    /\ [](resp.op = "predict" =>
            \/ (resp.status = 200 /\ CompleteResult)
            \/ (resp.status = 500 /\ ErrorOnly))
    /\ [][(resp'.op = "predict" /\ resp'.status = 500) => stats' = stats]_vars

\* a request failed in a process that has already counted a prediction
C12_Witness ==
    /\ resp.op = "predict"
    /\ resp.status = 500
    /\ stats.total_predictions >= 1

\* C13: two /predict calls of one process with the same request, point
\* estimate, trend and reference date return identical dates, predictions,
\* lower_bound and upper_bound.
C13_SameInputsSameSeries ==
    [][(/\ PredictOk /\ PredictOk'
        /\ resp'.program = app_py
        /\ resp'.request = resp.request
        /\ resp'.predicted_sales = resp.predicted_sales
        /\ resp'.rnd.trend = resp.rnd.trend
        /\ resp'.clock = resp.clock)
       => /\ resp'.dates = resp.dates
          /\ resp'.predictions = resp.predictions
          /\ resp'.lower_bound = resp.lower_bound
          /\ resp'.upper_bound = resp.upper_bound]_vars

\* a successful response computed without a trained model
FallbackServed ==
    /\ PredictOk
    /\ \/ resp.program = api_index_py
       \/ (resp.program = app_py /\ ~resp.model_loaded)

\* the base heuristic 5.0 x category multiplier x price multiplier
BaseHeuristic(cat_id, price) ==
    LET category == IF cat_id = "FOODS" THEN 130
                    ELSE IF cat_id = "HOUSEHOLD" THEN 80
                    ELSE IF cat_id = "HOBBIES" THEN 90
                    ELSE 100
        pricing == IF price > 500 THEN 70 ELSE IF price < 200 THEN 140 ELSE 100
    IN (500 * category * pricing) \div 10000

\* C15: with no trained model the point estimate is the base heuristic
\* 5.0 x {1.3 FOODS, 0.8 HOUSEHOLD, 0.9 HOBBIES, 1} x {0.7 if price > 5.0,
\* 1.4 if price < 2.0, 1} times the drawn variation, and never below 0.1.
C15_FallbackHeuristic ==
    FallbackServed =>
        /\ resp.predicted_sales >= 10
        /\ resp.predicted_sales =
              Max(10, (BaseHeuristic(resp.request.cat_id, resp.request.sell_price)
                       * resp.rnd.variation) \div 100)

\* cat_id FOODS at price 2.99 with variation 1.0 gives 6.5
C15_Witness ==
    /\ FallbackServed
    /\ resp.request.cat_id = "FOODS"
    /\ resp.request.sell_price = 299
    /\ resp.rnd.variation = 100
    /\ resp.predicted_sales = 650

\* the lag columns with the position of their noise draw
LagColumns == <<"lag_1", "lag_7", "lag_14", "lag_28", "lag_56">>

\* C16: the base estimate behind the cold-start lag features of app.py is the
\* base heuristic of the fallback point estimate (times the seasonal factor
\* of the day the vector was built), and every lag value is >= 0.
C16_LagBaseIsFallbackBase ==
    (FeaturesBuilt /\ resp.program = app_py) =>
        LET day == now(resp.clock.day, resp.clock.cross, 1 + 7)
            seasonal_factor == 100 + (10 * np_sin_yday(tm_yday(day))) \div 100
            base_estimate == BaseHeuristic(resp.request.cat_id, resp.request.sell_price)
            rolling_base == (base_estimate * seasonal_factor) \div 100
        IN \A i \in 1..Len(LagColumns) :
              /\ Feature(resp.features, LagColumns[i]) >= 0
              /\ Feature(resp.features, LagColumns[i])
                    = Max(0, rolling_base + resp.rnd.f.lag[i])

\* C17: in app.py the k-th entry of the series, k = 1..days_ahead, is
\* max(0.1, point_estimate * (1 + trend * k/7) * (1 + noise_k)) with the one
\* trend drawn for the request.
C17_SeriesFormula ==
    (PredictOk /\ resp.program = app_py) =>
        \A k \in 1..Len(resp.predictions) :
            LET drift == (resp.predicted_sales * (700 + resp.rnd.trend * k)) \div 700
                daily_point == (drift * (100 + resp.rnd.noise[k])) \div 100
            IN resp.predictions[k] = Max(10, daily_point)

\* C18: one std_dev serves the whole series: upper_bound = prediction +
\* 1.96*std_dev and lower_bound = max(0, prediction - 1.96*std_dev) for every
\* entry, where std_dev is the standard deviation of the series when it has
\* at least 2 points and point_estimate * 0.25 otherwise.
C18_OneStdDevBand ==
    HasBounds =>
        LET std_dev == IF Len(resp.predictions) >= 2 THEN np_std(resp.predictions)
                       ELSE (resp.predicted_sales * 25) \div 100
            half_width == (196 * std_dev) \div 100
        IN \A i \in 1..Len(resp.predictions) :
              /\ resp.upper_bound[i] = resp.predictions[i] + half_width
              /\ resp.lower_bound[i] = Max(0, resp.predictions[i] - half_width)

\* C19: revenue_impact is the sum of the returned predictions times the
\* sell_price of the request.
C19_RevenueIsSumTimesPrice ==
    PredictOk =>
        resp.revenue_impact = (SumSeq(resp.predictions) * resp.request.sell_price) \div 100

\* C20: the calendar fields of a feature vector describe one date, a day the
\* wall clock showed while the vector was built: day_of_week in 0..6,
\* is_weekend = 1 exactly when day_of_week >= 5, quarter = (month - 1) div 3
\* + 1 in 1..4, and day_of_month, week_of_year and the Friday is_event flag
\* belong to the same date.
C20_CalendarFieldsOneDate ==
    FeaturesBuilt =>
        LET F(name) == Feature(resp.features, name)
        IN /\ F("day_of_week") \in 0..6
           /\ F("is_weekend") = (IF F("day_of_week") >= 5 THEN 1 ELSE 0)
           /\ F("quarter") \in 1..4
           /\ F("quarter") = (F("month") - 1) \div 3 + 1
           /\ \E d \in {resp.clock.day, resp.clock.day + 1} :
                 /\ F("day_of_week") = weekday(d)
                 /\ F("month") = month_of(d)
                 /\ F("day_of_month") = day_of(d)
                 /\ F("week_of_year") = isoweek(d)
                 /\ F("is_event") = (IF weekday(d) = 4 THEN 1 ELSE 0)

\* a training script has built its feature columns
Trained == resp.op = "train"

\* no cell of the lag and rolling columns handed to the regressor is NaN
NoNaNColumns ==
    \A name \in DOMAIN resp \ {"op", "program", "table", "train", "val"} :
        \A k \in DOMAIN resp[name] :
            \A g \in 1..Len(resp.table) : \A i \in 1..Len(resp.table[g]) :
                resp[name][k][g][i] # NaN

\* C14 as stated: the rolling statistics are never NaN, and on the first row
\* of an id (a history of one element) rolling_mean_k is that element and
\* rolling_std_k is 0, for every window k.
C14_RollingStdZero ==
    Trained =>
        /\ NoNaNColumns
        /\ \A w \in DOMAIN resp.rolling_mean : \A g \in 1..Len(resp.table) :
              /\ resp.rolling_mean[w][g][1] = <<resp.table[g][1]>>
              /\ resp.rolling_std[w][g][1] = <<0>>

\* C14 amended: the rolling statistics are never NaN, and on the first row of
\* an id rolling_mean_k is that element and rolling_std_k is a number: 0 in
\* create_improved_model.py; in save_working_model.py the median of the
\* defined values of the rolling_std_k column, 0 when there is none.
C14_RollingStdDefined ==
    Trained =>
        /\ NoNaNColumns
        /\ \A w \in DOMAIN resp.rolling_mean : \A g \in 1..Len(resp.table) :
              /\ resp.rolling_mean[w][g][1] = <<resp.table[g][1]>>
              /\ resp.program = create_improved_model_py =>
                    resp.rolling_std[w][g][1] = <<0>>
              /\ resp.program = save_working_model_py =>
                    resp.rolling_std[w][g][1] =
                        (IF median(rolling_std(resp.table, w)) = NaN THEN <<0>>
                         ELSE median(rolling_std(resp.table, w)))

\* save_working_model.py gave the one-day history of an id a rolling_std_7
\* above 0
C14_Witness ==
    /\ Trained
    /\ resp.program = save_working_model_py
    /\ Len(resp.table[1]) = 1
    /\ resp.rolling_mean[7][1][1] = <<resp.table[1][1]>>
    /\ resp.rolling_std[7][1][1][1] > 0

\* C21: in create_improved_model.py lag_k of a row is the sales of the same id
\* k days earlier when the id has such a row, and otherwise the fill value 0,
\* never the sales of another id; every training row has a row of its id k
\* days earlier for each of the five lags.
C21_LagsFromOwnHistory ==
    (Trained /\ resp.program = create_improved_model_py) =>
        /\ DOMAIN resp.lag = {1, 7, 14, 28, 56}
        /\ \A k \in DOMAIN resp.lag : \A r \in Rows(resp.table) :
              resp.lag[k][r[1]][r[2]] =
                  (IF r[2] - k >= 1 THEN <<resp.table[r[1]][r[2] - k]>> ELSE <<0>>)
        /\ \A k \in DOMAIN resp.lag :
              LET history == shift(resp.table, k)
              IN \A r \in resp.train :
                     /\ r[2] - k >= 1
                     /\ history[r[1]][r[2]] # NaN

\* a table was split whose first training day holds a sale 56 days after
\* another sale of the same id, and whose second id starts right after a
\* sale of the first id
C21_Witness ==
    /\ Trained
    /\ resp.program = create_improved_model_py
    /\ \E r \in resp.train :
          /\ r[2] = TrainFirst
          /\ resp.lag[56][r[1]][r[2]] = <<300>>
    /\ resp.table[1][Len(resp.table[1])] = 300
    /\ resp.lag[1][2][1] = <<0>>

\* C22 as stated: the rolling and trend features of a row of
\* create_improved_model.py do not depend on the sales of the row's own day:
\* a table that differs only in that value gives the row the same features.
C22_FeaturesFromPastOnly ==
    (Trained /\ resp.program = create_improved_model_py) =>
        \A r \in Rows(resp.table) : \A v \in Sales :
            LET other == [resp.table EXCEPT ![r[1]][r[2]] = v]
                g == r[1]
                i == r[2]
            IN /\ \A w \in DOMAIN resp.rolling_mean :
                    /\ fillna(rolling_mean(other, w), 0)[g][i] = resp.rolling_mean[w][g][i]
                    /\ fillna(rolling_std(other, w), 0)[g][i] = resp.rolling_std[w][g][i]
                    /\ fillna(rolling_max(other, w), 0)[g][i] = resp.rolling_max[w][g][i]
                    /\ fillna(rolling_min(other, w), 0)[g][i] = resp.rolling_min[w][g][i]
               /\ \A p \in DOMAIN resp.sales_trend :
                    fillna(pct_change(other, p), 0)[g][i] = resp.sales_trend[p][g][i]

\* the indices of y_true that hold a non-zero value
NonZero(y) == {i \in 1..Len(y) : y[i] # 0}

RECURSIVE SumOver(_, _)
SumOver(f, S) ==
    IF S = {} THEN 0
    ELSE LET x == CHOOSE x \in S : TRUE IN f[x] + SumOver(f, S \ {x})

\* C23: safe_mape returns 0 when y_true has no non-zero entry, and otherwise
\* 100 times the mean of |y_true[i] - y_pred[i]| / |y_true[i]| over the
\* indices with y_true[i] # 0; the predictions at the zero entries of y_true
\* do not change the result.
C23_MaskedMeanError ==
    resp.op = "safe_mape" =>
        LET y == resp.y_true
            err == [i \in NonZero(y) |->
                       (Abs(y[i] - resp.y_pred[i]) * 10000) \div Abs(y[i])]
        IN /\ NonZero(y) = {} => resp.result = 0
           /\ NonZero(y) # {} =>
                 resp.result = SumOver(err, NonZero(y)) \div Cardinality(NonZero(y))
           /\ \A v \in Predicted :
                 safe_mape(y, [i \in 1..Len(y) |->
                                 IF y[i] = 0 THEN v ELSE resp.y_pred[i]]) = resp.result

\* safe_mape was called on an array with a zero entry predicted wrongly,
\* between two non-zero entries, one of them predicted wrongly
C23_Witness ==
    /\ resp.op = "safe_mape"
    /\ resp.y_true = <<400, 0, 0 - 200>>
    /\ resp.y_pred = <<300, 300, 0>>
    /\ resp.result = 6250

\* safe_mape was called on an empty array and returned 0
C23_WitnessEmpty ==
    /\ resp.op = "safe_mape"
    /\ resp.y_true = <<>>
    /\ resp.result = 0

\* C24: in each server total_predictions is the number of /predict requests
\* answered with 200 since the process started, whatever failing /predict
\* requests, GET requests, calendar-day changes and restarts came between.
C24_TotalCountsCompleted ==
    program \in Servers => stats.total_predictions = completed.total

\* a /predict failed after another had succeeded on an earlier day
C24_Witness ==
    /\ resp.op = "predict"
    /\ resp.status = 500
    /\ completed.total >= 1
    /\ stats.total_predictions = completed.total
    /\ today > completed.day

\* the /predict requests answered with 200 on the current calendar day
CompletedToday == IF completed.day = today THEN completed.on_day ELSE 0

\* C25 as stated: the daily_predictions of a GET /stats response is the number
\* of /predict requests answered with 200 on the calendar day the response
\* is served.
C25_DailyCountsToday ==
    (resp.op = "stats" /\ resp.last_updated = today) =>
        resp.daily_predictions = CompletedToday

\* C26: in app.py, for every combination of present, missing and unloadable
\* artifacts, load_model ends with the model loaded or None, None as soon as
\* a file that is present cannot be loaded; /predict builds the features and
\* uses the model exactly when it is loaded and the fallback heuristic
\* otherwise; model_loaded in the /predict, /stats and /health responses is
\* (model is not None); a 500 is only answered with a loaded model.
C26_ModeFixedByStartup ==
    (program = app_py /\ started) =>
        /\ model \in {None, Regressor}
        /\ (model # None) <=>
               /\ artifacts["model"] = "ok"
               /\ artifacts["encoders"] # "corrupt"
               /\ artifacts["info"] # "corrupt"
        /\ PredictOk =>
               /\ resp.model_loaded = (model # None)
               /\ model # None => FeaturesBuilt
               /\ model = None =>
                      /\ resp.features = <<>>
                      /\ resp.predicted_sales =
                             generate_fallback_prediction(resp.request, resp.rnd.variation)
        /\ resp.op \in {"stats", "health"} => resp.model_loaded = (model # None)
        /\ (resp.op = "predict" /\ resp.status = 500) => model # None

\* app.py answered a /predict from the fallback heuristic because the
\* encoders file could not be loaded, the model file being intact
C26_Witness ==
    /\ program = app_py
    /\ artifacts["model"] = "ok"
    /\ artifacts["encoders"] = "corrupt"
    /\ PredictOk
    /\ resp.model_loaded = FALSE
    /\ resp.features = <<>>

\* what dashboard_backend.py answers while its model is None
NotLoadedResponse ==
    /\ resp.op \in {"predict", "predict_batch", "model_info"} =>
          /\ resp.status = 500
          /\ resp.detail = "Model not loaded"
    /\ resp.op = "health" =>
          /\ resp.status = 200
          /\ resp.health = "healthy"
          /\ resp.model_loaded = FALSE

\* C27: while the model of dashboard_backend.py is None, every step leaves
\* prediction_stats as it was, POST /predict, POST /predict/batch and
\* GET /model/info answer 500 "Model not loaded", and GET /health answers
\* healthy with model_loaded = false.
C27_NotLoadedAnswers ==
    [][(program = dashboard_backend_py /\ started /\ model = None /\ started') =>
           /\ stats' = stats
           /\ completed' = completed
           /\ NotLoadedResponse']_vars

\* a batch was refused because the model is not loaded
C27_Witness ==
    /\ program = dashboard_backend_py
    /\ started
    /\ model = None
    /\ resp.op = "predict_batch"
    /\ resp.status = 500

\* the last response is the result list of a batch
BatchOk == resp.op = "predict_batch" /\ resp.status = 200

\* entry i of the batch response answers item i of the request
BatchEntryOk(i) ==
    LET item == resp.items[i]
        entry == resp.predictions[i]
        fails == ~PredictionRequest_ok(item) \/ ~resp.outs[i].ok
    IN /\ entry.item_id = (IF "item_id" \in DOMAIN item THEN item.item_id ELSE "unknown")
       /\ fails => ("error" \in DOMAIN entry /\ "predicted_sales" \notin DOMAIN entry)
       /\ ~fails =>
             /\ "error" \notin DOMAIN entry
             /\ entry.store_id = item.store_id
             /\ entry.predicted_sales >= 0
             /\ entry.predicted_sales = Max(0, resp.outs[i].value)
       \* the entry is the one the item gets in a batch of its own
       /\ entry = batch_result(item, resp.days_ahead, resp.outs[i])

\* C28: a batch served with a loaded model has one entry per item, in input
\* order, and total_items is their number; a failing item gets an entry with
\* an error field, the others keep their entry; a successful entry has
\* predicted_sales >= 0; the batch leaves prediction_stats unchanged.
C28_OneEntryPerItem ==
    [][BatchOk' =>
           /\ Len(resp'.predictions) = Len(resp'.items)
           /\ resp'.total_items = Len(resp'.items)
           /\ \A i \in 1..Len(resp'.items) : BatchEntryOk(i)'
           /\ resp' # resp => (stats' = stats /\ completed' = completed)]_vars

\* after a prediction was counted, a batch of two items was answered: the
\* first item failed, the second got a negative model output clamped to 0
C28_Witness ==
    /\ BatchOk
    /\ stats.total_predictions = 1
    /\ Len(resp.items) = 2
    /\ "error" \in DOMAIN resp.predictions[1]
    /\ resp.outs[2].value < 0
    /\ "predicted_sales" \in DOMAIN resp.predictions[2]
    /\ resp.predictions[2].predicted_sales = 0

\* the rows of a training run were split
Split == resp.op \in {"train", "split"} /\ "train" \in DOMAIN resp

\* no row is in both sets and every training day precedes every validation day
StrictSplitInTime ==
    /\ resp.train \cap resp.val = {}
    /\ \A t \in resp.train : \A v \in resp.val : t[2] < v[2]

\* C29 as stated, for the two scripts it names: every training row has a day
\* number in 500..1800 and sales above 0, the validation rows are all the
\* rows after day 1800, zero sales included, and the split is strict in time.
C29_SplitAtDay1800 ==
    Split =>
        /\ StrictSplitInTime
        /\ \A r \in resp.train :
              /\ r[2] >= 500
              /\ r[2] <= 1800
              /\ resp.table[r[1]][r[2]] > 0
        /\ resp.val = {r \in Rows(resp.table) : r[2] > 1800}

\* C29 amended: the split is strict in time in both scripts.  In
\* create_improved_model.py the training rows are the rows of days 500..1800
\* with sales above 0 and the validation rows are all the rows after day
\* 1800.  In production_forecasting_system.py the test rows are the rows of
\* the last 28 days and the training rows all earlier rows from day 29 on,
\* zero sales included in both sets.
C29_SplitStrictInTime ==
    Split =>
        /\ StrictSplitInTime
        /\ resp.program = create_improved_model_py =>
              /\ resp.train = {r \in Rows(resp.table) :
                                  /\ r[2] >= 500
                                  /\ r[2] <= 1800
                                  /\ resp.table[r[1]][r[2]] > 0}
              /\ resp.val = {r \in Rows(resp.table) : r[2] > 1800}
        /\ resp.program = production_forecasting_system_py =>
              /\ resp.val = {r \in Rows(resp.table) :
                                r[2] > Len(resp.table[r[1]]) - 28}
              /\ resp.train = {r \in Rows(resp.table) :
                                  /\ r[2] >= 29
                                  /\ r[2] <= Len(resp.table[r[1]]) - 28}

\* create_improved_model.py split a table of 1913 days: a zero-sales row of
\* day 500 is not a training row, a zero-sales row of day 1801 is a
\* validation row, and day 1800 is a training row
C29_Witness ==
    /\ Split
    /\ resp.program = create_improved_model_py
    /\ Len(resp.table[1]) = LastDay
    /\ resp.table[1][500] = 0
    /\ <<1, 500>> \notin resp.train
    /\ resp.table[1][1801] = 0
    /\ <<1, 1801>> \in resp.val
    /\ <<2, 1800>> \in resp.train

\* C30 as stated: in every feature vector built at serving time, for k in
\* {7, 14}, 0 <= rolling_min_k <= rolling_mean_k <= rolling_max_k; every
\* rolling_std_k is above 0; every lag value is >= 0.
C30_RollingStatsOrdered ==
    FeaturesBuilt =>
        LET f(name) == Feature(resp.features, name)
        IN /\ 0 <= f("rolling_min_7")
           /\ f("rolling_min_7") <= f("rolling_mean_7")
           /\ f("rolling_mean_7") <= f("rolling_max_7")
           /\ 0 <= f("rolling_min_14")
           /\ f("rolling_min_14") <= f("rolling_mean_14")
           /\ f("rolling_mean_14") <= f("rolling_max_14")
           /\ \A name \in {"rolling_std_3", "rolling_std_7", "rolling_std_14",
                            "rolling_std_28"} : f(name) > 0
           /\ \A i \in 1..Len(LagColumns) : f(LagColumns[i]) >= 0

\* ... and the same for the vectors of app.py alone
C30_AppRollingStatsOrdered == program = app_py => C30_RollingStatsOrdered

====
